---- MODULE Spec2Model ----
(***************************************************************************)
(* Model of the asset catalog slice (state/slices/assetsSlice), of its     *)
(* sorted selector, of the account row and of the yearn vault balances     *)
(* hook.  JavaScript objects are functions whose DOMAIN is the set of own  *)
(* keys; arrays are sequences; `undefined` is the string Undefined where a *)
(* value is expected and a missing key where an object entry is expected.  *)
(***************************************************************************)
EXTENDS Integers, Sequences, FiniteSets, TLC

VARIABLES
    byId,        \* state.assets.byId : CAIP19 -> Asset
    ids,         \* state.assets.ids  : CAIP19[]
    service,     \* what getAssetService() resolves to in this session
    pending,     \* fetchAsset thunks dispatched and not yet settled, per argument
    queries,     \* getAssetDescriptions queryFn calls in flight (snapshot taken)
    last,        \* the last event reduced by the store
    marketData,  \* state.marketData.marketData: keys in insertion order, and byId
    selected,    \* what selectAssetsByMarketCap last returned for the current inputs
    row,         \* what AccountRow last rendered for the current inputs
    amount,      \* what makeVaultFiatAmount last returned for the current inputs
    wallet,          \* useWallet().state.wallet is set
    yearn,           \* useYearn().yearn
    yearnLoading,    \* useYearn().loading
    balances,        \* useBalances().balances
    balancesLoading, \* useBalances().loading
    loading,         \* useVaultBalances: the loading state
    vaults,          \* useVaultBalances: the vaults state
    runs,            \* invocations of the effect's async function in flight
    started          \* how many of them were started

cacheVars == <<byId, ids, service, pending, queries, last>>

viewVars == <<marketData, selected, row, amount>>

hookVars ==
    <<wallet, yearn, yearnLoading, balances, balancesLoading, loading, vaults, runs, started>>

vars ==
    <<byId, ids, service, pending, queries, last, marketData, selected, row, amount,
      wallet, yearn, yearnLoading, balances, balancesLoading, loading, vaults, runs, started>>

---------------------------------------------------------------------------
(* Values *)

Undefined == "undefined"

Null == "null"

\* An object with no own keys; also what spreading `undefined` contributes.
EmptyObject == <<>>

\* { ...a, ...b }
Spread(a, b) ==
    [k \in (DOMAIN a) \cup (DOMAIN b) |-> IF k \in DOMAIN b THEN b[k] ELSE a[k]]

\* obj[key] = value
Put(obj, key, value) ==
    [k \in (DOMAIN obj) \cup {key} |-> IF k = key THEN value ELSE obj[k]]

Range(s) == {s[i] : i \in DOMAIN s}

includes(arr, x) == x \in Range(arr)

NoDuplicates(arr) == \A i, j \in DOMAIN arr : arr[i] = arr[j] => i = j

\* Array.from(new Set(arr)): first occurrences, in order.
RECURSIVE ArrayFromSet(_)
ArrayFromSet(arr) ==
    IF arr = <<>> THEN <<>>
    ELSE LET front == ArrayFromSet(SubSeq(arr, 1, Len(arr) - 1))
             x == arr[Len(arr)]
         IN IF includes(front, x) THEN front ELSE Append(front, x)

---------------------------------------------------------------------------
(* The asset provider (lib/assetService), an external collaborator *)

CAIP19s == {"eip155:1/erc20:0xa", "eip155:1/erc20:0xb", "eip155:1/erc20:0xc"}

\* service.byNetwork(NetworkTypes.MAINNET): the provider's catalog, in its order.
assetArray ==
    << [caip19 |-> "eip155:1/erc20:0xa", name |-> "Beta", symbol |-> "BET", precision |-> 18],
       [caip19 |-> "eip155:1/erc20:0xb", name |-> "Alpha", symbol |-> "ALP", precision |-> 6] >>

\* service.byTokenId({...caip19.fromCAIP19(id)}): the asset, or undefined.
byTokenId(id) ==
    IF \E i \in DOMAIN assetArray : assetArray[i].caip19 = id
    THEN (CHOOSE a \in Range(assetArray) : a.caip19 = id)
    ELSE EmptyObject

\* Texts the provider may answer with; Throws stands for a rejected promise.
Descriptions == {"text1"}

Throws == "throws"

\* service.description({ asset }): a text, or a rejection.  What the provider does
\* when handed `asset: undefined` is not fixed by this repository: either outcome.
DescriptionOutcomes == Descriptions \cup {Throws}

\* The resolved value of getAssetService(): the service object, or undefined (every use
\* of it in fetchAsset and getAssets is guarded with `?.`).
Services == {"service", Undefined}

---------------------------------------------------------------------------
(* assetsSlice.ts *)

initialState == [byId |-> EmptyObject, ids |-> <<>>]

state == [byId |-> byId, ids |-> ids]

\* The payloadCreator of fetchAsset: what the thunk settles with.
fetchAsset(svc, assetCAIP19, outcome) ==
    LET asset == IF svc = Undefined THEN EmptyObject ELSE byTokenId(assetCAIP19)
        description == IF svc = Undefined THEN Undefined ELSE outcome
    IN IF description = Throws
       THEN [status |-> "rejected", payload |-> EmptyObject]
       ELSE [status |-> "fulfilled",
             payload |-> Spread(asset, [description |-> description])]

\* setAssets without the Set: ids are concatenated as they come.
setAssetsConcat(st, payload) ==
    [byId |-> Spread(st.byId, payload.byId),
     ids |-> st.ids \o payload.ids]

\* setAssets that replaces the table by the payload's instead of merging into it.
setAssetsReplace(st, payload) ==
    [byId |-> payload.byId,
     ids |-> ArrayFromSet(st.ids \o payload.ids)]

\* setAssets that merges the payload's records into the stored ones field by field.
setAssetsMergeFields(st, payload) ==
    [byId |-> [k \in (DOMAIN st.byId) \cup (DOMAIN payload.byId) |->
                 IF k \notin DOMAIN payload.byId THEN st.byId[k]
                 ELSE IF k \notin DOMAIN st.byId THEN payload.byId[k]
                 ELSE Spread(st.byId[k], payload.byId[k])],
     ids |-> ArrayFromSet(st.ids \o payload.ids)]

\* reducers.setAssets
setAssets(st, payload) ==
    [byId |-> Spread(st.byId, payload.byId),
     ids |-> ArrayFromSet(st.ids \o payload.ids)]

\* fetchAsset.fulfilled without the includes() test: the id is pushed every time.
fetchAssetFulfilledPush(st, payload, assetCAIP19) ==
    [byId |-> Put(st.byId, assetCAIP19, payload),
     ids |-> Append(st.ids, assetCAIP19)]

\* fetchAsset.fulfilled that stores the record and leaves ids alone.
fetchAssetFulfilledNoIds(st, payload, assetCAIP19) ==
    [byId |-> Put(st.byId, assetCAIP19, payload),
     ids |-> st.ids]

\* extraReducers: fetchAsset.fulfilled
fetchAssetFulfilled(st, payload, assetCAIP19) ==
    [byId |-> Put(st.byId, assetCAIP19, payload),
     ids |-> IF ~includes(st.ids, assetCAIP19) THEN Append(st.ids, assetCAIP19) ELSE st.ids]

\* extraReducers: fetchAsset.rejected (only logs)
fetchAssetRejected(st) == st

\* getAssets.queryFn: the reduce over assetArray, from cloneDeep(initialState).
RECURSIVE reduceAssets(_, _)
reduceAssets(acc, arr) ==
    IF arr = <<>> THEN acc
    ELSE LET cur == Head(arr)
         IN reduceAssets([byId |-> Put(acc.byId, cur.caip19, cur),
                          ids |-> Append(acc.ids, cur.caip19)], Tail(arr))

\* getAssets.queryFn: `service?.byNetwork(...)` is undefined without a service and
\* `assetArray.reduce` then throws: the query yields no data.
getAssetsQueryFn(svc) ==
    IF svc = Undefined
    THEN [ok |-> FALSE, data |-> initialState]
    ELSE [ok |-> TRUE, data |-> reduceAssets(initialState, assetArray)]

\* getAssetDescriptions.queryFn, the forEach over the settled responses, from index idx.
\* A fulfilled response for an identifier the snapshot has no record of makes
\* `byId[id].description = ...` throw a TypeError: the whole queryFn fails.
RECURSIVE forEachResponse(_, _, _, _)
forEachResponse(acc, assetIds, responses, idx) ==
    IF idx > Len(assetIds) \/ ~acc.ok THEN acc
    ELSE IF responses[idx] = Throws
         THEN forEachResponse(acc, assetIds, responses, idx + 1)
         ELSE IF assetIds[idx] \notin DOMAIN acc.byId
              THEN [acc EXCEPT !.ok = FALSE]
              ELSE forEachResponse(
                     [acc EXCEPT !.byId = Put(acc.byId, assetIds[idx],
                          Put(acc.byId[assetIds[idx]], "description", responses[idx]))],
                     assetIds, responses, idx + 1)

\* getAssetDescriptions.queryFn after the allSettled join: snapshot is what getState()
\* returned when the queryFn started.
getAssetDescriptionsQueryFn(snapshot, assetIds, responses) ==
    LET r == forEachResponse([ok |-> TRUE, byId |-> snapshot.byId], assetIds, responses, 1)
    IN [ok |-> r.ok, data |-> [byId |-> r.byId, ids |-> snapshot.ids]]

---------------------------------------------------------------------------
(* Inputs of the cache operations *)

MaxPending == 1      \* fetchAsset thunks in flight at once
MaxQueries == 1      \* getAssetDescriptions queries in flight at once
MaxDeltaLen == 2     \* assets in one dispatched setAssets payload
MaxRuns == 1         \* runs of the useVaultBalances effect in a session
MaxHookRuns == 2     \* the same, where the hook is taken without the store

\* Records a payload may carry: as the catalog load sends them (no description yet)
\* and as a description fetch completes them.
DeltaAssets ==
    Range(assetArray)
    \cup {Spread(x, [description |-> d]) : x \in Range(assetArray), d \in Descriptions}

SeqsUpTo(S, n) == UNION {[1..k -> S] : k \in 0..n}

\* Payloads built the way the producers build them: keys of byId and ids agree,
\* ids may repeat an identifier.
Deltas == {reduceAssets(initialState, l) : l \in SeqsUpTo(DeltaAssets, MaxDeltaLen)}

\* Payloads whose byId and ids do not agree.
LooseDeltas ==
    {[byId |-> EmptyObject, ids |-> l] : l \in SeqsUpTo(CAIP19s, MaxDeltaLen) \ {<<>>}}
    \cup {[byId |-> Put(EmptyObject, x.caip19, x), ids |-> <<>>] : x \in DeltaAssets}

AnyDeltas == Deltas \cup LooseDeltas

\* Arguments of getAssetDescriptions.
AssetIdArgs ==
    { <<"eip155:1/erc20:0xa", "eip155:1/erc20:0xb">>,
      <<"eip155:1/erc20:0xa", "eip155:1/erc20:0xc">> }

Sum(f) ==
    LET RECURSIVE S(_)
        S(D) == IF D = {} THEN 0 ELSE LET x == CHOOSE x \in D : TRUE IN f[x] + S(D \ {x})
    IN S(DOMAIN f)

\* An event as the store sees it.
Event(op, arg, cause, status, responses) ==
    [op |-> op, arg |-> arg, cause |-> cause, status |-> status, responses |-> responses]

---------------------------------------------------------------------------
(* The store: actions *)

NotSelected == [done |-> FALSE, result |-> <<>>]

NotRendered == <<>>

NotComputed == <<>>

\* A store update invalidates what was derived from the store before it.
Invalidate == selected' = NotSelected /\ row' = NotRendered /\ amount' = NotComputed

\* A continuation of the effect's async function is queued as a microtask: the run
\* awaits nothing that is outstanding (`await undefined` without yearn, or the settled
\* getYearnVaults promise).  Microtasks run before any further event is handled.
MicrotaskPending ==
    \E i \in DOMAIN runs : runs[i].status # "awaiting" \/ runs[i].yearn = Null

\* What a reducer of the assets slice leaves alone outside its slice.
OutsideAssets == UNCHANGED <<marketData, hookVars>> /\ Invalidate

InitCache ==
    /\ service \in Services
    /\ byId = initialState.byId
    /\ ids = initialState.ids
    /\ pending = [id \in CAIP19s |-> 0]
    /\ queries = <<>>
    /\ last = Event("init", <<>>, "none", "none", <<>>)

\* dispatch(assets.actions.setAssets(payload))
SetAssets(payload) ==
    /\ byId' = setAssets(state, payload).byId
    /\ ids' = setAssets(state, payload).ids
    /\ last' = Event("setAssets", <<>>, "none", "none", <<>>)
    /\ UNCHANGED <<service, pending, queries>>
    /\ OutsideAssets

\* dispatch(fetchAsset(id)): the thunk starts; nothing reaches the reducers yet.
DispatchFetchAsset(id) ==
    /\ Sum(pending) < MaxPending
    /\ pending' = [pending EXCEPT ![id] = @ + 1]
    /\ UNCHANGED <<byId, ids, service, queries, last, viewVars, hookVars>>

FetchCause(svc, id, outcome) ==
    IF svc = Undefined THEN "noService"
    ELSE IF byTokenId(id) = EmptyObject THEN "notFound"
    ELSE IF outcome = Throws THEN "descriptionFailed"
    ELSE "none"

\* The thunk settles and its fulfilled or rejected action is reduced.
SettleFetchAsset(id, outcome) ==
    /\ ~MicrotaskPending
    /\ pending[id] > 0
    /\ service = Undefined => outcome = Throws
    /\ pending' = [pending EXCEPT ![id] = @ - 1]
    /\ LET r == fetchAsset(service, id, outcome)
           next == IF r.status = "fulfilled"
                   THEN fetchAssetFulfilled(state, r.payload, id)
                   ELSE fetchAssetRejected(state)
       IN /\ byId' = next.byId
          /\ ids' = next.ids
          /\ last' = Event("fetchAsset", <<id>>, FetchCause(service, id, outcome),
                           r.status, <<>>)
    /\ UNCHANGED <<service, queries>>
    /\ OutsideAssets

\* getAssets: the queryFn runs (it reads nothing of the store), cacheDataLoaded resolves and onCacheEntryAdded dispatches setAssets(data);
\* a queryFn that threw loads no data and dispatches nothing.
GetAssetsLoaded ==
    /\ ~MicrotaskPending
    /\ LET r == getAssetsQueryFn(service)
           next == IF r.ok THEN setAssets(state, r.data) ELSE state
       IN /\ byId' = next.byId
          /\ ids' = next.ids
          /\ last' = Event("getAssets", <<>>,
                           IF r.ok THEN "none" ELSE "noService",
                           IF r.ok THEN "fulfilled" ELSE "rejected", <<>>)
    /\ UNCHANGED <<service, pending, queries>>
    /\ OutsideAssets

\* getAssetDescriptions.queryFn starts: getState() is read and the requests go out.
GetAssetDescriptions(assetIds) ==
    /\ Len(queries) < MaxQueries
    /\ queries' = Append(queries, [assetIds |-> assetIds, snapshot |-> state])
    /\ UNCHANGED <<byId, ids, service, pending, last, viewVars, hookVars>>

RemoveAt(s, i) == SubSeq(s, 1, i - 1) \o SubSeq(s, i + 1, Len(s))

\* getAssetDescriptions: the allSettled join resolves with `responses`, the queryFn
\* returns and onCacheEntryAdded dispatches setAssets(data).  Without a service
\* `service.description` throws in every request: all are rejected.
GetAssetDescriptionsLoaded(i, responses) ==
    /\ i \in DOMAIN queries
    /\ service = Undefined => \A k \in DOMAIN responses : responses[k] = Throws
    /\ Len(responses) = Len(queries[i].assetIds)
    /\ queries' = RemoveAt(queries, i)
    /\ LET q == queries[i]
           r == getAssetDescriptionsQueryFn(q.snapshot, q.assetIds, responses)
           next == IF r.ok THEN setAssets(state, r.data) ELSE state
       IN /\ byId' = next.byId
          /\ ids' = next.ids
          /\ last' = Event("getAssetDescriptions", q.assetIds, "none",
                           IF r.ok THEN "fulfilled" ELSE "rejected", responses)
    /\ UNCHANGED <<service, pending>>
    /\ OutsideAssets

---------------------------------------------------------------------------
(* Derived views: selectAssetsByMarketCap (assetsSlice.ts) and AccountRow *)

\* An asset of the catalog that has the name of another one and a smaller symbol.
thirdAsset ==
    [caip19 |-> "eip155:1/erc20:0xc", name |-> "Alpha", symbol |-> "ALA", precision |-> 18]

ViewAssets == Range(assetArray) \cup {thirdAsset}

\* The names and symbols in use, in the order of JavaScript's string comparison.
StringsInOrder == <<"ALA", "ALP", "Alpha", "BET", "Beta">>

\* The position of a string in that order; a missing (undefined) key sorts last.
StringOrd(obj, key) ==
    IF key \in DOMAIN obj /\ obj[key] \in Range(StringsInOrder)
    THEN CHOOSE i \in DOMAIN StringsInOrder : StringsInOrder[i] = obj[key]
    ELSE Len(StringsInOrder) + 1

\* x sorts at or before y by ['name', 'symbol'].
NameSymbolLeq(x, y) ==
    \/ StringOrd(x, "name") < StringOrd(y, "name")
    \/ /\ StringOrd(x, "name") = StringOrd(y, "name")
       /\ StringOrd(x, "symbol") <= StringOrd(y, "symbol")

\* sortBy that returns its input as it is.
sortByUnsorted(values) == values

\* lodash sortBy(values, ['name', 'symbol']): ascending and stable.
RECURSIVE sortBy(_)
sortBy(values) ==
    IF values = <<>> THEN <<>>
    ELSE LET front == sortBy(SubSeq(values, 1, Len(values) - 1))
             x == values[Len(values)]
             keep == {i \in DOMAIN front : NameSymbolLeq(front[i], x)}
             n == IF keep = {} THEN 0 ELSE CHOOSE i \in keep : \A j \in keep : j <= i
         IN SubSeq(front, 1, n) \o <<x>> \o SubSeq(front, n + 1, Len(front))

\* Object.keys(state.assets.byId): keys in insertion order.  Every producer inserts a
\* key into byId when it appends it to ids, so that order is the order of ids.
ObjectKeys(st) == SelectSeq(st.ids, LAMBDA k : k \in DOMAIN st.byId)

\* Object.values(assetById) for the keys left in the working copy.
ObjectValues(st, left) ==
    LET keys == SelectSeq(ObjectKeys(st), LAMBDA k : k \in left)
    IN [i \in DOMAIN keys |-> st.byId[keys[i]]]

\* The reduce without its delete: the assets found stay in the working copy.
RECURSIVE reduceByMarketCapNoDelete(_, _, _, _)
reduceByMarketCapNoDelete(acc, left, st, caip19ByMarketCap) ==
    IF caip19ByMarketCap = <<>> THEN [acc |-> acc, left |-> left]
    ELSE LET cur == Head(caip19ByMarketCap)
         IN IF cur \notin left
            THEN reduceByMarketCapNoDelete(acc, left, st, Tail(caip19ByMarketCap))
            ELSE reduceByMarketCapNoDelete(Append(acc, st.byId[cur]), left, st,
                                           Tail(caip19ByMarketCap))

\* The reduce over Object.keys(marketData): acc collects the assets found, left is the
\* key set of the working copy after the deletes.
RECURSIVE reduceByMarketCap(_, _, _, _)
reduceByMarketCap(acc, left, st, caip19ByMarketCap) ==
    IF caip19ByMarketCap = <<>> THEN [acc |-> acc, left |-> left]
    ELSE LET cur == Head(caip19ByMarketCap)
         IN IF cur \notin left
            THEN reduceByMarketCap(acc, left, st, Tail(caip19ByMarketCap))
            ELSE reduceByMarketCap(Append(acc, st.byId[cur]), left \ {cur}, st,
                                   Tail(caip19ByMarketCap))

\* The working copy being the selector's input itself.
cloneDeepAliased(value) == [aliased |-> TRUE, value |-> value]

\* cloneDeep(value): an object of its own with the same content.
cloneDeep(value) == [aliased |-> FALSE, value |-> value]

\* state.assets.byId as selectAssetsByMarketCap(state) leaves it: the deletes of the
\* reduce reach it only if the working copy is the same object.
assetsByIdAfterSelect(st, md) ==
    LET assetById == cloneDeep(st.byId)
        r == reduceByMarketCap(<<>>, DOMAIN assetById.value, st, md.keys)
    IN IF assetById.aliased /\ md.defined
       THEN [k \in r.left |-> st.byId[k]]
       ELSE st.byId

\* selectAssetsByMarketCap(state)
selectAssetsByMarketCap(st, md) ==
    IF md.defined
    THEN LET r == reduceByMarketCap(<<>>, DOMAIN st.byId, st, md.keys)
             remainingSortedNoMarketCap == sortBy(ObjectValues(st, r.left))
         IN r.acc \o remainingSortedNoMarketCap
    ELSE sortBy(ObjectValues(st, DOMAIN st.byId))

\* Prices a market data record may carry; Undefined is a record without a price.
Prices == {Undefined, "0", "10"}

\* The market-cap rank the market data provider gives each asset.
marketCapRank ==
    [id \in CAIP19s |->
        CASE id = "eip155:1/erc20:0xa" -> 2
          [] id = "eip155:1/erc20:0xb" -> 1
          [] OTHER -> 3]

\* What the portfolio selectors hand the row.
FiatValues == {"0", "25"}

\* !x for the values a price takes: undefined and the empty string are falsy.
Falsy(x) == x \in {Undefined, ""}

Text(t) == [type |-> "text", value |-> t]

AmountFiat(v) == [type |-> "Amount.Fiat", value |-> v]

\* selectMarketDataById(state, CAIP19)?.price
PriceOf(md, CAIP19) ==
    IF md.defined /\ CAIP19 \in DOMAIN md.byId /\ "price" \in DOMAIN md.byId[CAIP19]
    THEN md.byId[CAIP19].price
    ELSE Undefined

\* AccountRow with the fiat balance rendered whatever the price is.
AccountRowUnguarded(st, md, CAIP19, fiatValue) ==
    IF CAIP19 \notin DOMAIN st.byId
    THEN [rendered |-> FALSE, CAIP19 |-> CAIP19, price |-> Text(""), fiat |-> Text("")]
    ELSE [rendered |-> TRUE, CAIP19 |-> CAIP19,
          price |-> IF Falsy(PriceOf(md, CAIP19)) THEN Text("--")
                    ELSE AmountFiat(PriceOf(md, CAIP19)),
          fiat |-> AmountFiat(fiatValue)]

\* AccountRow: null without an asset record; else the price and the fiat balance
\* cells, each the text '--' when `!marketData?.price`.
AccountRow(st, md, CAIP19, fiatValue) ==
    IF CAIP19 \notin DOMAIN st.byId
    THEN [rendered |-> FALSE, CAIP19 |-> CAIP19, price |-> Text(""), fiat |-> Text("")]
    ELSE [rendered |-> TRUE, CAIP19 |-> CAIP19,
          price |-> IF Falsy(PriceOf(md, CAIP19)) THEN Text("--")
                    ELSE AmountFiat(PriceOf(md, CAIP19)),
          fiat |-> IF Falsy(PriceOf(md, CAIP19)) THEN Text("--")
                   ELSE AmountFiat(fiatValue)]

InitView ==
    /\ marketData = [defined |-> FALSE, keys |-> <<>>, byId |-> EmptyObject]
    /\ selected = NotSelected
    /\ row = NotRendered
    /\ amount = NotComputed

\* The market data slice stores a record for id: a new key goes last.
SetMarketData(id, price) ==
    /\ ~MicrotaskPending
    /\ marketData' =
         [defined |-> TRUE,
          keys |-> IF includes(marketData.keys, id) THEN marketData.keys
                   ELSE Append(marketData.keys, id),
          byId |-> Put(marketData.byId, id,
                       IF price = Undefined
                       THEN [marketCapRank |-> marketCapRank[id]]
                       ELSE [marketCapRank |-> marketCapRank[id], price |-> price])]
    /\ Invalidate
    /\ UNCHANGED <<cacheVars, hookVars>>

\* A view reads selectAssetsByMarketCap(state).
SelectAssetsByMarketCap ==
    /\ selected' = [done |-> TRUE, result |-> selectAssetsByMarketCap(state, marketData)]
    /\ byId' = assetsByIdAfterSelect(state, marketData)
    /\ UNCHANGED <<ids, service, pending, queries, last, marketData, row, amount, hookVars>>

\* An AccountRow is rendered for CAIP19.
RenderAccountRow(CAIP19, fiatValue) ==
    /\ row' = <<AccountRow(state, marketData, CAIP19, fiatValue)>>
    /\ UNCHANGED <<cacheVars, marketData, selected, amount, hookVars>>

---------------------------------------------------------------------------
(* lib/bignumber: arbitrary-precision decimals *)

\* A BigNumber is NaN or the decimal c * 10^e, kept with c not a multiple of ten, so
\* that equal numbers are equal values.
NaN == [nan |-> TRUE, c |-> 0, e |-> 0]

RECURSIVE Decimal(_, _)
Decimal(c, e) ==
    IF c = 0 THEN [nan |-> FALSE, c |-> 0, e |-> 0]
    ELSE IF c % 10 = 0 THEN Decimal(c \div 10, e + 1)
    ELSE [nan |-> FALSE, c |-> c, e |-> e]

Zero == Decimal(0, 0)

\* The numeric strings in use, with the number each one reads as.
Numerals ==
    [s \in {"0", "10", "1.5", "3000000", "1000000000000000000", "2000000000000000000"} |->
        CASE s = "0" -> Decimal(0, 0)
          [] s = "10" -> Decimal(10, 0)
          [] s = "1.5" -> Decimal(15, -1)
          [] s = "3000000" -> Decimal(3, 6)
          [] s = "1000000000000000000" -> Decimal(1, 18)
          [] s = "2000000000000000000" -> Decimal(2, 18)]

\* new BigNumber(value) for a string: NaN for what is not a number ('undefined').
BigNumber(value) == IF value \in DOMAIN Numerals THEN Numerals[value] ELSE NaN

\* bnOrZero(value) for a string or undefined
bnOrZero(value) == IF BigNumber(value).nan THEN Zero ELSE BigNumber(value)

\* bnOrZero(value) for a BigNumber
bnOrZeroBigNumber(value) == IF value.nan THEN Zero ELSE value

\* `1e+${asset?.precision}` read as a BigNumber: 10^precision, NaN for '1e+undefined'.
PowerOfTen(asset) ==
    IF "precision" \in DOMAIN asset THEN Decimal(1, asset.precision) ELSE NaN

\* x.div(y) for y a power of ten (exact: the quotient only moves the decimal point)
div(x, y) == IF x.nan \/ y.nan THEN NaN ELSE Decimal(x.c, x.e - y.e)

\* x.times(y)
times(x, y) == IF x.nan \/ y.nan THEN NaN ELSE Decimal(x.c * y.c, x.e + y.e)

\* A sum of decimals far apart in magnitude has more digits than c holds: a sum is
\* kept as its non-zero digits, digits[e] being the digit of 10^e.
RECURSIVE DigitsOf(_, _)
DigitsOf(c, e) ==
    IF c = 0 THEN EmptyObject
    ELSE LET rest == DigitsOf(c \div 10, e + 1)
         IN IF c % 10 = 0 THEN rest ELSE Put(rest, e, c % 10)

\* digits with d added at 10^e, the carry going up.
RECURSIVE AddDigit(_, _, _)
AddDigit(digits, e, d) ==
    LET s == d + (IF e \in DOMAIN digits THEN digits[e] ELSE 0)
        others == [k \in (DOMAIN digits) \ {e} |-> digits[k]]
    IN IF s < 10 THEN Put(digits, e, s)
       ELSE IF s = 10 THEN AddDigit(others, e + 1, 1)
       ELSE AddDigit(Put(digits, e, s - 10), e + 1, 1)

RECURSIVE AddDigits(_, _)
AddDigits(digits, more) ==
    IF DOMAIN more = {} THEN digits
    ELSE LET e == CHOOSE k \in DOMAIN more : TRUE
         IN AddDigits(AddDigit(digits, e, more[e]),
                      [k \in (DOMAIN more) \ {e} |-> more[k]])

NaNSum == [nan |-> TRUE, digits |-> EmptyObject]

\* acc.plus(x) for a sum acc and a decimal x
plus(acc, x) ==
    IF acc.nan \/ x.nan THEN NaNSum
    ELSE [nan |-> FALSE, digits |-> AddDigits(acc.digits, DigitsOf(x.c, x.e))]

DigitChars == <<"0", "1", "2", "3", "4", "5", "6", "7", "8", "9">>

\* The decimal digits of a natural number, as text.
RECURSIVE NatToString(_)
NatToString(n) ==
    IF n < 10 THEN DigitChars[n + 1]
    ELSE NatToString(n \div 10) \o DigitChars[(n % 10) + 1]

RECURSIVE Zeros(_)
Zeros(n) == IF n <= 0 THEN "" ELSE "0" \o Zeros(n - 1)

\* The digits of n from position a to position b (1 is the leading digit), as text.
RECURSIVE DigitsFromTo(_, _, _)
DigitsFromTo(n, a, b) ==
    LET len == Len(NatToString(n))
        digit(i) == DigitChars[((n \div (10 ^ (len - i))) % 10) + 1]
    IN IF a > b THEN "" ELSE digit(a) \o DigitsFromTo(n, a + 1, b)

\* The decimal exponents from which toString() switches to exponential notation
\* (EXPONENTIAL_AT of bignumber.js).
TO_EXP_NEG == -7
TO_EXP_POS == 21

\* x.toString() for a decimal: 'NaN', plain notation, or exponential notation when the
\* exponent of the leading digit is at or beyond TO_EXP_NEG or TO_EXP_POS.
toString(x) ==
    IF x.nan THEN "NaN"
    ELSE IF x.c = 0 THEN "0"
    ELSE LET len == Len(NatToString(x.c))
             exp == x.e + len - 1
         IN IF exp <= TO_EXP_NEG \/ exp >= TO_EXP_POS
            THEN DigitsFromTo(x.c, 1, 1)
                   \o (IF len > 1 THEN "." \o DigitsFromTo(x.c, 2, len) ELSE "")
                   \o (IF exp < 0 THEN "e-" \o NatToString(0 - exp)
                       ELSE "e+" \o NatToString(exp))
            ELSE IF x.e >= 0 THEN NatToString(x.c) \o Zeros(x.e)
            ELSE IF exp >= 0
                 THEN DigitsFromTo(x.c, 1, exp + 1) \o "." \o DigitsFromTo(x.c, exp + 2, len)
                 ELSE "0." \o Zeros(0 - exp - 1) \o NatToString(x.c)

---------------------------------------------------------------------------
(* useVaultBalances and getYearnVaults *)

\* features/earn/providers/yearn/constants/vaults
SUPPORTED_VAULTS ==
    <<[vaultAddress |-> "0xa", tokenAddress |-> "0xb", chain |-> "ethereum"],
      [vaultAddress |-> "0xb", tokenAddress |-> "0xc", chain |-> "ethereum"]>>

\* caip19.toCAIP19({ chain, network: MAINNET, contractType: ERC20, tokenId })
toCAIP19(chain, tokenId) == "eip155:1/erc20:" \o tokenId

\* What the wallet may hold of one asset, in its smallest unit.
RawBalances == {"0", "3000000", "1000000000000000000"}

\* What yearn.pricePerShare resolves to.
PricesPerShare == {Undefined, "3000000", "2000000000000000000"}

\* The entry of getYearnVaults' result for a vault of SUPPORTED_VAULTS.
EarnVault(vault, balance, pricePerShare) ==
    Spread(Spread(vault, balance),
           [vaultCaip19 |-> toCAIP19(vault.chain, vault.vaultAddress),
            tokenCaip19 |-> toCAIP19(vault.chain, vault.tokenAddress),
            pricePerShare |-> bnOrZero(pricePerShare)])

\* assets[key]: the record, or an object without keys for undefined.
AssetOrUndefined(st, key) == IF key \in DOMAIN st.byId THEN st.byId[key] ELSE EmptyObject

\* makeVaultFiatAmount dividing the product once by 10^precision.
makeVaultFiatAmountDividedOnce(st, md, vault) ==
    LET asset == AssetOrUndefined(st, vault.vaultCaip19)
        pricePerShare == bnOrZeroBigNumber(vault.pricePerShare)
        marketPrice == PriceOf(md, vault.tokenCaip19)
    IN times(times(div(bnOrZero(vault.balance), PowerOfTen(asset)), pricePerShare),
             bnOrZero(marketPrice))

\* makeVaultFiatAmount(vault)
makeVaultFiatAmount(st, md, vault) ==
    LET asset == AssetOrUndefined(st, vault.vaultCaip19)
        pricePerShare == div(bnOrZeroBigNumber(vault.pricePerShare), PowerOfTen(asset))
        marketPrice == PriceOf(md, vault.tokenCaip19)
    IN times(times(div(bnOrZero(vault.balance), PowerOfTen(asset)), pricePerShare),
             bnOrZero(marketPrice))

\* The prices the market data may carry for a vault's underlying token.
UnderlyingPrices == Prices \cup {"1.5"}

\* The vaults a caller may hand makeVaultFiatAmount.
EarnVaults ==
    {EarnVault(SUPPORTED_VAULTS[i], [balance |-> b], pps) :
        i \in DOMAIN SUPPORTED_VAULTS, b \in RawBalances, pps \in PricesPerShare}

\* A render evaluates makeVaultFiatAmount(vault).
MakeVaultFiatAmount(vault) ==
    /\ amount' = <<[vault |-> vault, result |-> makeVaultFiatAmount(state, marketData, vault)]>>
    /\ UNCHANGED <<cacheVars, marketData, selected, row, hookVars>>

\* The hook is mounted: no wallet yet, both providers still loading.
InitHook ==
    /\ wallet = FALSE
    /\ yearn = Null
    /\ yearnLoading = TRUE
    /\ balances = EmptyObject
    /\ balancesLoading = TRUE
    /\ loading = FALSE
    /\ vaults = EmptyObject
    /\ runs = <<>>
    /\ started = 0

\* Object.values(vaults): getYearnVaults inserts the keys in the order of SUPPORTED_VAULTS.
ObjectValuesOfVaults(vs) ==
    LET held == SelectSeq(SUPPORTED_VAULTS, LAMBDA vault : vault.vaultAddress \in DOMAIN vs)
    IN [i \in DOMAIN held |-> vs[held[i].vaultAddress]]

\* totalBalance adding the amounts as they are.
RECURSIVE totalBalanceUnguardedFrom(_, _, _, _)
totalBalanceUnguardedFrom(acc, values, st, md) ==
    IF values = <<>> THEN acc
    ELSE totalBalanceUnguardedFrom(plus(acc, makeVaultFiatAmount(st, md, Head(values))),
                                   Tail(values), st, md)

\* The reduce of totalBalance over the values left, from acc.
RECURSIVE totalBalanceFrom(_, _, _, _)
totalBalanceFrom(acc, values, st, md) ==
    IF values = <<>> THEN acc
    ELSE LET fiatAmount == makeVaultFiatAmount(st, md, Head(values))
         IN totalBalanceFrom(plus(acc, bnOrZeroBigNumber(fiatAmount)), Tail(values), st, md)

\* totalBalance of useVaultBalances, before its toString().
totalBalance(st, md, vs) ==
    totalBalanceFrom([nan |-> FALSE, digits |-> EmptyObject], ObjectValuesOfVaults(vs), st, md)

\* yearn?.findByVaultTokenId(vaultAddress)?.apy.net_apy
NetApy(y, vaultAddress) == IF y = Null THEN Undefined ELSE "net_apy"

\* The entry mergedVaults builds for [vaultAddress, vault] of Object.entries(vaults).
mergedVault(st, md, y, vaultAddress, vault) ==
    LET asset == AssetOrUndefined(st, vaultAddress)
        fiatAmount == makeVaultFiatAmount(st, md, vault)
    IN Spread(vault,
              [cryptoAmount |-> toString(div(bnOrZero(vault.balance), PowerOfTen(asset))),
               fiatAmount |-> toString(fiatAmount),
               apy |-> NetApy(y, vaultAddress)])

\* mergedVaults of useVaultBalances
mergedVaults(st, md, y, vs) ==
    [vaultAddress \in DOMAIN vs |-> mergedVault(st, md, y, vaultAddress, vs[vaultAddress])]

\* The loading flag useVaultBalances returns.
returnedLoading == loading \/ yearnLoading \/ balancesLoading

\* The balances the wallet may report: per vault token no entry, or an account entry
\* with its raw balance.
BalancesSnapshots ==
    [{"eip155:1/erc20:0xa", "eip155:1/erc20:0xb"} -> RawBalances \cup {Undefined}]

\* The snapshots that differ only in which vault tokens the wallet holds.
HeldOrNotSnapshots ==
    {snapshot \in BalancesSnapshots :
        \A id \in DOMAIN snapshot : snapshot[id] \in {Undefined, "1000000000000000000"}}

\* The Balances object of a snapshot: a key for every asset the wallet reports.
BalancesOf(snapshot) ==
    [k \in {id \in DOMAIN snapshot : snapshot[id] # Undefined} |-> [balance |-> snapshot[k]]]

\* getYearnVaults from the vault at index on, up to its next await or its return.
RECURSIVE getYearnVaults(_, _, _)
getYearnVaults(bal, index, acc) ==
    IF index > Len(SUPPORTED_VAULTS) THEN [status |-> "resolved", index |-> index, acc |-> acc]
    ELSE LET vault == SUPPORTED_VAULTS[index]
             vaultCaip19 == toCAIP19(vault.chain, vault.vaultAddress)
         IN IF vaultCaip19 \in DOMAIN bal
            THEN [status |-> "awaiting", index |-> index, acc |-> acc]
            ELSE getYearnVaults(bal, index + 1, acc)

\* getYearnVaults resumed with what `await yearn?.pricePerShare(...)` gave.
getYearnVaultsResumed(run, outcome) ==
    IF outcome = Throws THEN [status |-> "rejected", index |-> run.index, acc |-> run.acc]
    ELSE LET vault == SUPPORTED_VAULTS[run.index]
             balance == run.balances[toCAIP19(vault.chain, vault.vaultAddress)]
         IN getYearnVaults(run.balances, run.index + 1,
                           Put(run.acc, vault.vaultAddress, EarnVault(vault, balance, outcome)))

\* A run of the effect's async function: the balances and yearn it closed over, where
\* getYearnVaults stands, and what pricePerShare answered so far.
Run(bal, y, g, answers) ==
    [balances |-> bal, yearn |-> y, status |-> g.status, index |-> g.index, acc |-> g.acc,
     answers |-> answers]

\* The effect of useVaultBalances, run after a render with these dependencies; a
\* session starts at most maxRuns runs.
useEffect(w, yLoading, bLoading, bal, y, maxRuns) ==
    IF ~w \/ yLoading \/ bLoading
    THEN UNCHANGED <<loading, runs, started>>
    ELSE /\ started < maxRuns
         /\ loading' = TRUE
         /\ runs' = Append(runs, Run(bal, y, getYearnVaults(bal, 1, EmptyObject), EmptyObject))
         /\ started' = started + 1

WalletConnected(maxRuns) ==
    /\ ~MicrotaskPending
    /\ ~wallet
    /\ wallet' = TRUE
    /\ useEffect(TRUE, yearnLoading, balancesLoading, balances, yearn, maxRuns)
    /\ UNCHANGED <<cacheVars, viewVars, yearn, yearnLoading, balances, balancesLoading, vaults>>

YearnLoaded(y, maxRuns) ==
    /\ ~MicrotaskPending
    /\ yearnLoading
    /\ yearnLoading' = FALSE
    /\ yearn' = y
    /\ useEffect(wallet, FALSE, balancesLoading, balances, y, maxRuns)
    /\ UNCHANGED <<cacheVars, viewVars, wallet, balances, balancesLoading, vaults>>

BalancesLoaded(bal, maxRuns) ==
    /\ ~MicrotaskPending
    /\ balancesLoading' = FALSE
    /\ balances' = bal
    /\ useEffect(wallet, yearnLoading, FALSE, bal, yearn, maxRuns)
    /\ UNCHANGED <<cacheVars, viewVars, wallet, yearn, yearnLoading, vaults>>

\* The wallet disconnects: the effect runs again and returns at its guard.
WalletDisconnected ==
    /\ ~MicrotaskPending
    /\ wallet
    /\ wallet' = FALSE
    /\ useEffect(FALSE, yearnLoading, balancesLoading, balances, yearn, 0)
    /\ UNCHANGED <<cacheVars, viewVars, yearn, yearnLoading, balances, balancesLoading, vaults>>

\* `await yearn?.pricePerShare(...)` of run i settles; without yearn it is undefined
\* and the run goes on in a microtask, otherwise the provider's answer is an event.
PricePerShareSettles(i, outcome) ==
    /\ i \in DOMAIN runs
    /\ runs[i].status = "awaiting"
    /\ runs[i].yearn = Null => outcome = Undefined
    /\ runs[i].yearn # Null => ~MicrotaskPending
    /\ LET run == runs[i]
           vaultAddress == SUPPORTED_VAULTS[run.index].vaultAddress
       IN runs' = [runs EXCEPT ![i] = Run(run.balances, run.yearn,
                                          getYearnVaultsResumed(run, outcome),
                                          Put(run.answers, vaultAddress, outcome))]
    /\ UNCHANGED <<cacheVars, viewVars, wallet, yearn, yearnLoading, balances,
                   balancesLoading, loading, vaults, started>>

\* How many fetchAsset(id) the forEach over Object.values(yearnVaults) dispatches.
Dispatched(yearnVaults, id) ==
    Cardinality({k \in DOMAIN yearnVaults : yearnVaults[k].vaultCaip19 = id})
      + Cardinality({k \in DOMAIN yearnVaults : yearnVaults[k].tokenCaip19 = id})

\* `await getYearnVaults(...)` of run i settles: the rest of the try block, or the
\* catch, and then the finally.
EffectSettles(i) ==
    /\ i \in DOMAIN runs
    /\ runs[i].status # "awaiting"
    /\ IF runs[i].status = "resolved"
       THEN /\ pending' = [id \in DOMAIN pending |-> pending[id] + Dispatched(runs[i].acc, id)]
            /\ vaults' = runs[i].acc
       ELSE UNCHANGED <<pending, vaults>>
    /\ loading' = FALSE
    /\ runs' = RemoveAt(runs, i)
    /\ UNCHANGED <<byId, ids, service, queries, last, viewVars, wallet, yearn, yearnLoading,
                   balances, balancesLoading, started>>

---------------------------------------------------------------------------
(* Specifications *)

Init == InitCache /\ InitView /\ InitHook

\* The catalog producers of assetsSlice.ts.
Next ==
    \/ \E id \in CAIP19s : DispatchFetchAsset(id)
    \/ \E id \in CAIP19s, outcome \in DescriptionOutcomes : SettleFetchAsset(id, outcome)
    \/ GetAssetsLoaded
    \/ \E assetIds \in AssetIdArgs : GetAssetDescriptions(assetIds)
    \/ \E i \in 1..MaxQueries, responses \in SeqsUpTo(DescriptionOutcomes, 2) :
          GetAssetDescriptionsLoaded(i, responses)

Spec == Init /\ [][Next]_vars

\* Every cache operation: the producers, a dispatched setAssets and the sorted selector.
NextCache ==
    \/ \E x \in Range(assetArray) : SetAssets(reduceAssets(initialState, <<x>>))
    \/ \E id \in CAIP19s : DispatchFetchAsset(id)
    \/ \E id \in CAIP19s, outcome \in DescriptionOutcomes : SettleFetchAsset(id, outcome)
    \/ GetAssetsLoaded
    \/ \E assetIds \in AssetIdArgs : GetAssetDescriptions(assetIds)
    \/ \E i \in 1..MaxQueries, responses \in SeqsUpTo(DescriptionOutcomes, 2) :
          GetAssetDescriptionsLoaded(i, responses)
    \/ SelectAssetsByMarketCap

SpecCache == Init /\ [][NextCache]_vars

\* The slice alone: every action its reducers handle, with any payload.
NextUpsert ==
    \/ \E payload \in AnyDeltas : SetAssets(payload)
    \/ \E id \in CAIP19s : DispatchFetchAsset(id)
    \/ \E id \in CAIP19s, outcome \in DescriptionOutcomes : SettleFetchAsset(id, outcome)

SpecUpsert == Init /\ [][NextUpsert]_vars

\* The derived views over a catalog and market data that arrive one record at a time.
NextView ==
    \/ \E x \in ViewAssets : SetAssets(reduceAssets(initialState, <<x>>))
    \/ \E id \in CAIP19s, price \in Prices : SetMarketData(id, price)
    \/ SelectAssetsByMarketCap
    \/ \E id \in CAIP19s, fiatValue \in FiatValues : RenderAccountRow(id, fiatValue)

InitWithService == Init /\ service = "service"

SpecView == InitWithService /\ [][NextView]_vars

\* The fiat amount of a vault over a catalog and market data that change.
NextFiat ==
    \/ GetAssetsLoaded
    \/ \E i \in DOMAIN SUPPORTED_VAULTS, price \in UnderlyingPrices :
          SetMarketData(toCAIP19(SUPPORTED_VAULTS[i].chain, SUPPORTED_VAULTS[i].tokenAddress),
                        price)
    \/ \E vault \in EarnVaults : MakeVaultFiatAmount(vault)

SpecFiat == InitWithService /\ [][NextFiat]_vars

\* The vault balances hook, with the fetchAsset thunks it dispatches.
NextVault ==
    \/ WalletConnected(MaxRuns)
    \/ \E y \in {"yearn", Null} : YearnLoaded(y, MaxRuns)
    \/ \E snapshot \in BalancesSnapshots : BalancesLoaded(BalancesOf(snapshot), MaxRuns)
    \/ \E i \in 1..MaxRuns, outcome \in PricesPerShare \cup {Throws} :
          PricePerShareSettles(i, outcome)
    \/ \E i \in 1..MaxRuns : EffectSettles(i)
    \/ GetAssetsLoaded
    \/ \E id \in CAIP19s, outcome \in DescriptionOutcomes : SettleFetchAsset(id, outcome)

SpecVault == InitWithService /\ [][NextVault]_vars

\* The hook alone, its inputs changing while earlier runs of the effect are in flight.
NextHook ==
    \/ WalletConnected(MaxHookRuns)
    \/ WalletDisconnected
    \/ \E y \in {"yearn", Null} : YearnLoaded(y, MaxHookRuns)
    \/ \E snapshot \in HeldOrNotSnapshots : BalancesLoaded(BalancesOf(snapshot), MaxHookRuns)
    \/ \E i \in 1..MaxHookRuns, outcome \in PricesPerShare \cup {Throws} :
          PricePerShareSettles(i, outcome)
    \/ \E i \in 1..MaxHookRuns : EffectSettles(i)

SpecHook == InitWithService /\ [][NextHook]_vars

\* The hook's total over vaults, a catalog and market data that all change.
NextTotal ==
    \/ WalletConnected(MaxRuns)
    \/ \E y \in {"yearn", Null} : YearnLoaded(y, MaxRuns)
    \/ \E snapshot \in BalancesSnapshots : BalancesLoaded(BalancesOf(snapshot), MaxRuns)
    \/ \E i \in 1..MaxRuns, outcome \in PricesPerShare \cup {Throws} :
          PricePerShareSettles(i, outcome)
    \/ \E i \in 1..MaxRuns : EffectSettles(i)
    \/ GetAssetsLoaded
    \/ \E i \in DOMAIN SUPPORTED_VAULTS, price \in UnderlyingPrices :
          SetMarketData(toCAIP19(SUPPORTED_VAULTS[i].chain, SUPPORTED_VAULTS[i].tokenAddress),
                        price)

SpecTotal == InitWithService /\ [][NextTotal]_vars

---------------------------------------------------------------------------
(* Properties of the upsert (SpecUpsert) *)

\* The identifiers a delta touches.
Touched(P) == (DOMAIN P.byId) \cup Range(P.ids)

Disjoint(A, B) == Touched(A) \cap Touched(B) = {}

\* C1: for every reachable cache state and every delta P, applying setAssets(P) twice
\* gives exactly the {byId, ids} (order of ids included) that applying it once gives.
UpsertIdempotent ==
    \A P \in AnyDeltas : setAssets(setAssets(state, P), P) = setAssets(state, P)

\* A setAssets has just been reduced and the cache, which lists several identifiers, is
\* what a delta with a repeated id leaves: applying that delta again is the second time.
UpsertIdempotentWitness ==
    /\ last.op = "setAssets"
    /\ Len(ids) >= 2
    /\ \E P \in Deltas :
          /\ Len(P.ids) = 2 /\ P.ids[1] = P.ids[2]
          /\ setAssets(state, P) = state

\* C2: in every state reachable by setAssets upserts and fetchAsset fulfilled/rejected
\* events, in any order and with any payload, ids holds no identifier twice.
NoDuplicateIds == NoDuplicates(ids)

\* After upserts that filled the list, a fetch was fulfilled for an identifier that was
\* already listed first: the list still has every identifier once.
NoDuplicateIdsWitness ==
    /\ Len(ids) = Cardinality(CAIP19s)
    /\ last.op = "fetchAsset" /\ last.status = "fulfilled" /\ ids[1] = last.arg[1]

\* C3 as stated: for every cache state and every two deltas touching disjoint identifier
\* sets, A then B gives the same {byId, ids} as B then A.
UpsertCommutes ==
    \A A, B \in Deltas :
        Disjoint(A, B) =>
            setAssets(setAssets(state, A), B) = setAssets(setAssets(state, B), A)

\* C3 amended: A then B and B then A give the same byId and the same set of ids, each
\* listed once; only the order of the newly appended ids follows the order of arrival.
UpsertCommutesUpToOrder ==
    \A A, B \in Deltas :
        Disjoint(A, B) =>
            LET ab == setAssets(setAssets(state, A), B)
                ba == setAssets(setAssets(state, B), A)
            IN /\ ab.byId = ba.byId
               /\ Range(ab.ids) = Range(ba.ids)
               /\ Len(ab.ids) = Len(ba.ids)
               /\ NoDuplicates(ab.ids) /\ NoDuplicates(ba.ids)

\* Two disjoint non-empty deltas have been upserted one after the other.
UpsertCommutesWitness ==
    /\ last.op = "setAssets"
    /\ \E A, B \in Deltas :
          /\ Disjoint(A, B) /\ A.ids # <<>> /\ B.ids # <<>>
          /\ state = setAssets(setAssets(initialState, A), B)
          /\ state # setAssets(setAssets(initialState, B), A)

---------------------------------------------------------------------------
(* Properties of the producers (Spec) *)

\* obj[key] as a value that can be compared: <<>> when the key is absent.
Entry(obj, key) == IF key \in DOMAIN obj THEN <<obj[key]>> ELSE <<>>

FetchAssetSettles == Sum(pending') < Sum(pending)

\* C4: whenever a fetchAsset(id) fails (the provider errors, is not there, or has no
\* asset for id), the cache after the call is the cache before it and the thunk is
\* rejected, not fulfilled.
FetchFailureLeavesCacheUnchanged ==
    [][(FetchAssetSettles /\ last'.cause # "none")
         => (byId' = byId /\ ids' = ids /\ last'.status = "rejected")]_vars

\* The query whose result lands in this step.
Landing(q) == \E i \in DOMAIN queries : q = queries[i] /\ queries' = RemoveAt(queries, i)

\* C5: a bulk description fetch for identifiers that all had a record when the query
\* started, where exactly the fetch for k fails: the batch completes, the other
\* descriptions are in the cache afterwards, and the entry of k is what it was
\* immediately before the batch landed.
PartialFailureIsolation ==
    [][\A q \in Range(queries) :
         (/\ Landing(q)
          /\ \A n \in DOMAIN q.assetIds : q.assetIds[n] \in DOMAIN q.snapshot.byId
          /\ Cardinality({n \in DOMAIN q.assetIds : last'.responses[n] = Throws}) = 1)
         => /\ last'.status = "fulfilled"
            /\ \A n \in DOMAIN q.assetIds :
                  IF last'.responses[n] = Throws
                  THEN Entry(byId', q.assetIds[n]) = Entry(byId, q.assetIds[n])
                  ELSE /\ q.assetIds[n] \in DOMAIN byId'
                       /\ byId'[q.assetIds[n]].description = last'.responses[n]]_vars


---------------------------------------------------------------------------
(* Properties of the derived views (SpecView) *)

\* The asset has a record in the market data mapping.
HasMarketData(x) == marketData.defined /\ x.caip19 \in DOMAIN marketData.byId

RankOf(x) == marketData.byId[x.caip19].marketCapRank

\* The caip19 of every element of a list of assets.
Caip19s(assets) == [i \in DOMAIN assets |-> assets[i].caip19]

\* C6 as stated: selectAssetsByMarketCap returns the assets with market data first, in
\* ascending market-cap rank whatever the order of the market data mapping, then the
\* assets without market data ordered by (name, symbol).
MarketCapOrdering ==
    selected.done =>
        \A i, j \in DOMAIN selected.result :
            i < j =>
                LET x == selected.result[i]
                    y == selected.result[j]
                IN /\ HasMarketData(y) => HasMarketData(x)
                   /\ (HasMarketData(x) /\ HasMarketData(y)) => RankOf(x) <= RankOf(y)
                   /\ (~HasMarketData(x) /\ ~HasMarketData(y)) => NameSymbolLeq(x, y)

\* C6 amended: selectAssetsByMarketCap returns the assets with market data first, in
\* the iteration order of the market data mapping (ascending rank only when the mapping
\* is rank-ordered), then the assets without market data ordered by (name, symbol).
MarketDataKeyOrdering ==
    selected.done =>
        LET withData == SelectSeq(selected.result, HasMarketData)
            n == Len(withData)
        IN /\ SubSeq(selected.result, 1, n) = withData
           /\ Caip19s(withData) =
                 SelectSeq(marketData.keys, LAMBDA k : k \in DOMAIN byId)
           /\ \A i, j \in (n + 1)..Len(selected.result) :
                 i < j => NameSymbolLeq(selected.result[i], selected.result[j])

\* The selector ran on three assets where the rank-2 asset entered the market data
\* mapping before the rank-1 asset and the third asset has no market data.
MarketDataKeyOrderingWitness ==
    /\ selected.done
    /\ Len(selected.result) = 3
    /\ marketData.keys = <<"eip155:1/erc20:0xa", "eip155:1/erc20:0xb">>
    /\ Caip19s(selected.result) =
          <<"eip155:1/erc20:0xa", "eip155:1/erc20:0xb", "eip155:1/erc20:0xc">>

Placeholder == Text("--")

\* C10: a rendered row (its asset record exists) shows the placeholder "--" in both the
\* price and the fiat balance field when the asset has no market data record or a record
\* without price, never an amount; when a price is present neither field is "--".
MissingMarketDataPlaceholder ==
    \A i \in DOMAIN row :
        row[i].rendered =>
            IF PriceOf(marketData, row[i].CAIP19) = Undefined
            THEN row[i].price = Placeholder /\ row[i].fiat = Placeholder
            ELSE /\ row[i].price = AmountFiat(PriceOf(marketData, row[i].CAIP19))
                 /\ row[i].fiat.type = "Amount.Fiat"
                 /\ row[i].fiat.value \in FiatValues

\* A row was rendered for an asset whose market data record carries no price.
MissingMarketDataPlaceholderWitness ==
    /\ row # NotRendered
    /\ row[1].rendered
    /\ marketData.defined
    /\ row[1].CAIP19 \in DOMAIN marketData.byId
    /\ PriceOf(marketData, row[1].CAIP19) = Undefined
    /\ row[1].fiat = Placeholder


---------------------------------------------------------------------------
(* Properties of the fiat amount (SpecFiat) *)

\* C9: for every vault whose vault asset record is in the catalog with precision p,
\* makeVaultFiatAmount returns exactly (rawBalance / 10^p) * (pricePerShare / 10^p) *
\* underlyingPrice (a missing price counting as 0), that is the decimal
\* rawBalance * pricePerShare * underlyingPrice * 10^(-2p), with no digit lost.
FiatAmountFormula ==
    \A i \in DOMAIN amount :
        LET vault == amount[i].vault
            asset == AssetOrUndefined(state, vault.vaultCaip19)
            rawBalance == Numerals[vault.balance]
            pricePerShare == vault.pricePerShare
            price == PriceOf(marketData, vault.tokenCaip19)
            underlyingPrice == IF price = Undefined THEN Zero ELSE Numerals[price]
        IN "precision" \in DOMAIN asset =>
              /\ ~amount[i].result.nan
              /\ amount[i].result =
                    Decimal(rawBalance.c * pricePerShare.c * underlyingPrice.c,
                            rawBalance.e + pricePerShare.e + underlyingPrice.e
                              - 2 * asset.precision)

\* The scenario of the fiat amount: precision 18, raw balance 1000000000000000000,
\* pricePerShare 2000000000000000000 and underlying price 10 gave 20.
FiatAmountFormulaWitness ==
    /\ amount # NotComputed
    /\ AssetOrUndefined(state, amount[1].vault.vaultCaip19) # EmptyObject
    /\ AssetOrUndefined(state, amount[1].vault.vaultCaip19).precision = 18
    /\ amount[1].vault.balance = "1000000000000000000"
    /\ amount[1].vault.pricePerShare = Numerals["2000000000000000000"]
    /\ PriceOf(marketData, amount[1].vault.tokenCaip19) = "10"
    /\ amount[1].result = Decimal(20, 0)


---------------------------------------------------------------------------
(* Properties of the vault balances hook (SpecVault) *)

VaultCaip19(vault) == toCAIP19(vault.chain, vault.vaultAddress)

\* The wallet holds nothing of the vault's token: no entry, or an entry with balance 0.
NotHeld(bal, vault) ==
    \/ VaultCaip19(vault) \notin DOMAIN bal
    \/ bnOrZero(bal[VaultCaip19(vault)].balance) = Zero

\* C7: for every balances snapshot, a supported vault whose vault token has a zero
\* balance or no entry in the snapshot is never a key of what getYearnVaults builds from
\* that snapshot.
VaultExclusion ==
    \A i \in DOMAIN runs :
        \A k \in DOMAIN SUPPORTED_VAULTS :
            NotHeld(runs[i].balances, SUPPORTED_VAULTS[k])
                => SUPPORTED_VAULTS[k].vaultAddress \notin DOMAIN runs[i].acc

\* The run whose `await getYearnVaults(...)` settles in this step.
Settling(q) == \E i \in DOMAIN runs : q = runs[i] /\ runs' = RemoveAt(runs, i)

\* The held vaults for which pricePerShare rejected or gave undefined in run q.
Degraded(q) ==
    {k \in DOMAIN SUPPORTED_VAULTS :
        /\ ~NotHeld(q.balances, SUPPORTED_VAULTS[k])
        /\ SUPPORTED_VAULTS[k].vaultAddress \in DOMAIN q.answers
        /\ q.answers[SUPPORTED_VAULTS[k].vaultAddress] \in {Throws, Undefined}}

\* C8: when the pricePerShare fetch of a held vault rejects or gives undefined, the
\* computation is not aborted: at the end of the run the vaults state holds every held
\* vault of the run's snapshot, and the degraded vault with pricePerShare zero and, its
\* asset record with precision being in the catalog, fiat amount 0.
DegradedPrice ==
    [][\A q \in Range(runs) :
          (Settling(q) /\ Degraded(q) # {}) =>
              /\ \A k \in DOMAIN SUPPORTED_VAULTS :
                    ~NotHeld(q.balances, SUPPORTED_VAULTS[k])
                        => SUPPORTED_VAULTS[k].vaultAddress \in DOMAIN vaults'
              /\ \A k \in Degraded(q) :
                    LET a == SUPPORTED_VAULTS[k].vaultAddress
                    IN /\ a \in DOMAIN vaults'
                       /\ vaults'[a].pricePerShare = Zero
                       /\ "precision" \in DOMAIN AssetOrUndefined(state, vaults'[a].vaultCaip19)
                            => makeVaultFiatAmount(state, marketData, vaults'[a]) = Zero]_vars

---------------------------------------------------------------------------
(* Further properties of the upsert (SpecUpsert) *)

\* C11: for every cache state and every two upserts A and B that land one after the
\* other in either order (setAssets deliveries, and a fetchAsset fulfilment landing
\* after a delivery), the record stored for an identifier is, whole, the record of the
\* upsert that landed last for it: never a mix of two payloads, and an identifier that
\* the last upsert does not carry keeps the record it had.
LastLandsWins ==
    /\ \A A, B \in Deltas :
          LET ab == setAssets(setAssets(state, A), B)
          IN \A id \in DOMAIN ab.byId :
                ab.byId[id] = IF id \in DOMAIN B.byId THEN B.byId[id]
                              ELSE IF id \in DOMAIN A.byId THEN A.byId[id]
                              ELSE byId[id]
    /\ \A A \in Deltas, id \in CAIP19s, outcome \in Descriptions :
          LET r == fetchAsset(service, id, outcome)
              after == fetchAssetFulfilled(setAssets(state, A), r.payload, id)
          IN /\ after.byId[id] = r.payload
             /\ \A k \in DOMAIN after.byId \ {id} :
                   after.byId[k] = IF k \in DOMAIN A.byId THEN A.byId[k] ELSE byId[k]

\* Two deliveries carrying different records for one identifier have landed one after
\* the other, and the cache holds the record of the second.
LastLandsWinsWitness ==
    /\ last.op = "setAssets"
    /\ \E A, B \in Deltas :
          \E id \in (DOMAIN A.byId) \cap (DOMAIN B.byId) :
              /\ A.byId[id] # B.byId[id]
              /\ "description" \in DOMAIN A.byId[id]
              /\ state = setAssets(setAssets(initialState, A), B)
              /\ byId[id] = B.byId[id]

---------------------------------------------------------------------------
(* Properties of the total (SpecTotal) *)

\* The vault has no usable price data: no market price for its underlying token, a
\* pricePerShare of zero, or no vault asset record with a precision in the catalog.
MissingPriceData(vault) ==
    \/ bnOrZero(PriceOf(marketData, vault.tokenCaip19)) = Zero
    \/ vault.pricePerShare = Zero
    \/ "precision" \notin DOMAIN AssetOrUndefined(state, vault.vaultCaip19)

\* What a held vault is to contribute to the total.
Contribution(vault) ==
    IF MissingPriceData(vault) THEN Zero ELSE makeVaultFiatAmount(state, marketData, vault)

RECURSIVE SumOfContributions(_)
SumOfContributions(addresses) ==
    IF addresses = {} THEN [nan |-> FALSE, digits |-> EmptyObject]
    ELSE LET a == CHOOSE a \in addresses : TRUE
         IN plus(SumOfContributions(addresses \ {a}), Contribution(vaults[a]))

\* C12: in every state of the hook, totalBalance is a number (never NaN) and equals the
\* sum over the held vaults of each vault's fiat amount, a vault with missing price data
\* (no market price, pricePerShare zero, or no vault asset record with a precision)
\* counting as exactly zero.
TotalIsSumOfFiatAmounts ==
    LET total == totalBalance(state, marketData, vaults)
    IN /\ ~total.nan
       /\ total = SumOfContributions(DOMAIN vaults)

\* Two vaults are held: one has no price for its underlying token and one has a fiat
\* amount that is not zero, which is then the whole total.
TotalIsSumOfFiatAmountsWitness ==
    /\ Cardinality(DOMAIN vaults) = 2
    /\ \E a, b \in DOMAIN vaults :
          /\ PriceOf(marketData, vaults[a].tokenCaip19) = Undefined
          /\ ~MissingPriceData(vaults[b])
          /\ totalBalance(state, marketData, vaults).digits
               = DigitsOf(Contribution(vaults[b]).c, Contribution(vaults[b]).e)
          /\ DOMAIN totalBalance(state, marketData, vaults).digits # {}

---------------------------------------------------------------------------
(* Properties of the hook under changing inputs (SpecHook) *)

\* The keys getYearnVaults gives for a balances snapshot.
HeldAddresses(bal) ==
    {SUPPORTED_VAULTS[k].vaultAddress :
        k \in {j \in DOMAIN SUPPORTED_VAULTS : VaultCaip19(SUPPORTED_VAULTS[j]) \in DOMAIN bal}}

\* C13: whenever the last vault computation in flight completes with a result, the
\* wallet being connected and both providers ready, the held-vault set is the one
\* getYearnVaults gives for the most recent balances snapshot: a computation started
\* from an older snapshot does not determine it.
LatestInputsWin ==
    [][\A q \in Range(runs) :
          (/\ Settling(q) /\ q.status = "resolved" /\ runs' = <<>>
           /\ wallet /\ ~yearnLoading /\ ~balancesLoading)
              => DOMAIN vaults' = HeldAddresses(balances)]_vars

---------------------------------------------------------------------------
(* Further properties of the vault balances hook (SpecVault) *)

\* C14: for every held vault whose vault asset record is in the catalog under its
\* vaultCaip19 with precision p, the merged view's cryptoAmount is rawBalance / 10^p.
CryptoAmountByCanonicalId ==
    \A a \in DOMAIN vaults :
        LET asset == AssetOrUndefined(state, vaults[a].vaultCaip19)
        IN "precision" \in DOMAIN asset =>
              mergedVaults(state, marketData, yearn, vaults)[a].cryptoAmount
                 = toString(Decimal(Numerals[vaults[a].balance].c,
                                    Numerals[vaults[a].balance].e - asset.precision))

---------------------------------------------------------------------------
(* Further properties of the derived views (SpecView) *)

\* The step evaluates selectAssetsByMarketCap.
Selecting == selected'.done /\ ~selected.done

\* C15: evaluating selectAssetsByMarketCap leaves the asset cache (the key set of byId
\* and every record, and ids) and the market data mapping exactly as they were, although
\* the selector deletes entries from its working copy.
SelectorLeavesInputsAlone ==
    [][Selecting => (byId' = byId /\ ids' = ids /\ marketData' = marketData)]_vars

\* The selector ran over a catalog of which it removed an asset with market data from
\* its working copy, and the cache still holds the record.
SelectorLeavesInputsAloneWitness ==
    /\ selected.done
    /\ Len(selected.result) >= 2
    /\ \E k \in Range(marketData.keys) : k \in DOMAIN byId /\ byId[k] = selected.result[1]

---------------------------------------------------------------------------
(* Properties of every cache operation (SpecCache) *)

---------------------------------------------------------------------------
(* Further properties of the producers (Spec) *)

\* C17: in every state reachable from the empty cache through the producers (the
\* getAssets load, the getAssetDescriptions bulk fetch, fetchAsset fulfilled or
\* rejected), the keys of byId are exactly the elements of ids.
ByIdAndIdsAgree == DOMAIN byId = Range(ids)

\* A fetchAsset has been fulfilled for an identifier the catalog load does not carry,
\* after the load: its record and its id are both there.
ByIdAndIdsAgreeWitness ==
    /\ last.op = "fetchAsset"
    /\ last.status = "fulfilled"
    /\ last.arg = <<"eip155:1/erc20:0xc">>
    /\ "eip155:1/erc20:0xc" \in DOMAIN byId
    /\ ids[Len(ids)] = "eip155:1/erc20:0xc"
    /\ Len(ids) = 3

---------------------------------------------------------------------------
(* Further properties of the sorted selector (SpecView) *)

\* C18: for every catalog and every market data mapping (with identifiers the catalog
\* does not hold, or none at all), what selectAssetsByMarketCap returns holds every
\* record of byId exactly once and nothing else.
SortedViewIsPermutation ==
    selected.done =>
        /\ Len(selected.result) = Cardinality(DOMAIN byId)
        /\ \A k \in DOMAIN byId :
              Cardinality({i \in DOMAIN selected.result : selected.result[i] = byId[k]}) = 1
        /\ \A i \in DOMAIN selected.result :
              \E k \in DOMAIN byId : selected.result[i] = byId[k]

\* The selector ran over two assets with a market data mapping that has a record for
\* one of them and a record for an identifier the catalog does not hold.
SortedViewIsPermutationWitness ==
    /\ selected.done
    /\ Len(selected.result) = 2
    /\ \E k \in Range(marketData.keys) : k \notin DOMAIN byId
    /\ \E k \in Range(marketData.keys) : k \in DOMAIN byId

---------------------------------------------------------------------------
(* Further properties of the bulk description fetch (Spec) *)

\* C19: when the result of a getAssetDescriptions for the identifiers S is upserted,
\* the record of every identifier outside S is what it was just before: a record
\* written after the query took its snapshot is not overwritten by the snapshot's.
BulkFetchTouchesOnlyRequested ==
    [][\A q \in Range(queries) :
          Landing(q) =>
              \A id \in DOMAIN byId \ Range(q.assetIds) :
                  Entry(byId', id) = Entry(byId, id)]_vars

---------------------------------------------------------------------------
(* Further properties of the hook under changing inputs (SpecHook) *)

\* C20: in every state of useVaultBalances in which a vault computation started by the
\* effect has not completed yet, the returned loading flag is true, also when a second
\* computation was started while an earlier one was in flight.
LoadingCoversRunsInFlight == runs # <<>> => returnedLoading

====
